---- MODULE Spec2Model ----
(***************************************************************************)
(* A model of deepreg/model/network/ddf_dvf.py: the forward pass           *)
(* (ddf_dvf_forward), the loss and metric assembly                         *)
(* (ddf_dvf_add_loss_metric) and the model construction                    *)
(* (build_ddf_dvf_model).                                                  *)
(*                                                                         *)
(* Tensors are functions over the voxel grid of their spatial size; the    *)
(* batch axis is left out (every batch element takes the same path).  A    *)
(* 4-D tensor (batch, d1, d2, d3) maps a voxel to a number, a 5-D tensor   *)
(* maps a voxel to the tuple of its channels.  Numbers are fixed point:    *)
(* the integer n stands for n / Scale, and products round down, as float   *)
(* arithmetic rounds.  An optional value is None (<<>>) or Some(x).        *)
(***************************************************************************)
EXTENDS Integers, Sequences, FiniteSets, TLC

\* ------------------------------------------------------------------ bounds

\* The largest extent of an axis, and the largest number of voxels of a volume.
MaxDim == 2

\* The fractional bits of the fixed-point numbers.
FracBits == 8

Scale == 2 ^ FracBits

\* ------------------------------------------------------------ optional values

None == <<>>

Some(x) == <<x>>

IsNone(o) == o = <<>>

Get(o) == o[1]

\* ------------------------------------------------------------------ numbers

Min(a, b) == IF a <= b THEN a ELSE b

Max(a, b) == IF a >= b THEN a ELSE b

Abs(a) == IF a >= 0 THEN a ELSE 0 - a

\* a * b of two fixed-point numbers.
Mul(a, b) == (a * b) \div Scale

RECURSIVE SumOver(_, _)
\* The sum of f over the finite set S.
SumOver(f, S) ==
    IF S = {} THEN 0
    ELSE LET x == CHOOSE y \in S : TRUE
         IN f[x] + SumOver(f, S \ {x})

\* A tensor as an explicit table of its values.
Table(f) == f @@ <<>>

\* ------------------------------------------------------------------- shapes

\* The spatial sizes (d1, d2, d3) of the volumes.
Sizes ==
    {s \in (1..MaxDim) \X (1..MaxDim) \X (1..MaxDim) : s[1] * s[2] * s[3] <= MaxDim}

\* The voxels of a volume of spatial size s, indexed from 0.
Grid(s) == (0..(s[1] - 1)) \X (0..(s[2] - 1)) \X (0..(s[3] - 1))

\* The spatial size of tensor t.
SizeOf(t) == CHOOSE s \in Sizes : DOMAIN t = Grid(s)

\* tf.expand_dims(t, axis=4): a 4-D tensor as a 1-channel 5-D tensor.
ExpandDims(t) == Table([v \in DOMAIN t |-> <<t[v]>>])

\* tf.squeeze(t, axis=4): a 1-channel 5-D tensor as a 4-D tensor.
Squeeze(t) == Table([v \in DOMAIN t |-> t[v][1]])

\* tf.concat([a, b], axis=4): the channels of a followed by those of b.
Concat(a, b) == Table([v \in DOMAIN a |-> a[v] \o b[v]])

\* ---------------------------------------------------------------- resampling

\* Linear interpolation between a and b at the fraction fr / Scale.
Lerp(a, b, fr) == ((Scale - fr) * a + fr * b) \div Scale

\* A coordinate clamped to [0, dim - 1].
Clamp(c, dim) == Max(0, Min(c, (dim - 1) * Scale))

\* The trilinear interpolation of the scalar volume f of size s at loc.
Trilinear(f, s, loc) ==
    LET c1 == Clamp(loc[1], s[1])
        c2 == Clamp(loc[2], s[2])
        c3 == Clamp(loc[3], s[3])
        i0 == c1 \div Scale
        j0 == c2 \div Scale
        k0 == c3 \div Scale
        i1 == Min(i0 + 1, s[1] - 1)
        j1 == Min(j0 + 1, s[2] - 1)
        k1 == Min(k0 + 1, s[3] - 1)
        f1 == c1 % Scale
        f2 == c2 % Scale
        f3 == c3 % Scale
        AlongK(i, j) == Lerp(f[<<i, j, k0>>], f[<<i, j, k1>>], f3)
        AlongJ(i) == Lerp(AlongK(i, j0), AlongK(i, j1), f2)
    IN  Lerp(AlongJ(i0), AlongJ(i1), f1)

\* layer_util.get_reference_grid: the identity coordinates of a volume of size s.
ReferenceGrid(s) ==
    Table([v \in Grid(s) |-> <<v[1] * Scale, v[2] * Scale, v[3] * Scale>>])

\* Warping.call on a 4-D volume: vol sampled at grid_ref + ddf.
WarpVolume(grid_ref, ddf, vol) ==
    LET s == SizeOf(vol)
    IN  Table([v \in DOMAIN grid_ref |->
            Trilinear(vol, s, <<grid_ref[v][1] + ddf[v][1],
                                grid_ref[v][2] + ddf[v][2],
                                grid_ref[v][3] + ddf[v][3]>>)])

\* Warping.call on a 5-D tensor: every channel of vol sampled at grid_ref + ddf.
WarpChannels(grid_ref, ddf, vol) ==
    LET s == SizeOf(vol)
        n == Len(vol[CHOOSE v \in DOMAIN vol : TRUE])
    IN  Table([v \in DOMAIN grid_ref |->
            [c \in 1..n |->
                Trilinear([u \in DOMAIN vol |-> vol[u][c]], s,
                          <<grid_ref[v][1] + ddf[v][1],
                            grid_ref[v][2] + ddf[v][2],
                            grid_ref[v][3] + ddf[v][3]>>)]])

\* Resize3d(size)(inputs): every output voxel mapped back to its input
\* coordinate by the per-axis scale factor, then interpolated.
Resize3d(size, inputs) ==
    LET s == SizeOf(inputs)
        n == Len(inputs[CHOOSE v \in DOMAIN inputs : TRUE])
    IN  Table([v \in Grid(size) |->
            [c \in 1..n |->
                Trilinear([u \in DOMAIN inputs |-> inputs[u][c]], s,
                          <<(v[1] * s[1] * Scale) \div size[1],
                            (v[2] * s[2] * Scale) \div size[2],
                            (v[3] * s[3] * Scale) \div size[3]>>)]])

\* The number of scaling-and-squaring steps of IntDVF.
NumSteps == 7

RECURSIVE Squaring(_, _, _)
\* n times: ddf = ddf + warp(ddf, ddf).
Squaring(grid_ref, ddf, n) ==
    IF n = 0 THEN ddf
    ELSE LET w == WarpChannels(grid_ref, ddf, ddf)
         IN  Squaring(grid_ref,
                      Table([v \in DOMAIN ddf |->
                                [c \in 1..3 |-> ddf[v][c] + w[v][c]]]),
                      n - 1)

\* IntDVF(fixed_image_size)(dvf): the velocity field integrated into a
\* displacement field by scaling and squaring.
IntDVF(fixed_image_size, dvf) ==
    Squaring(ReferenceGrid(fixed_image_size),
             Table([v \in DOMAIN dvf |->
                       [c \in 1..3 |-> dvf[v][c] \div (2 ^ NumSteps)]]),
             NumSteps)

\* ------------------------------------------------------------------ inputs

\* A volume of size s with the same value at every voxel.
Constant(s, c) == Table([v \in Grid(s) |-> c])

\* A volume of size s alternating 1.0 and 0.0 from voxel (0, 0, 0).
Checker(s) ==
    Table([v \in Grid(s) |-> IF (v[1] + v[2] + v[3]) % 2 = 0 THEN Scale ELSE 0])

\* A volume of size s of value 1.0 at voxel (0, 0, 0) and 0.25 elsewhere.
Corner(s) ==
    Table([v \in Grid(s) |-> IF v = <<0, 0, 0>> THEN Scale ELSE Scale \div 4])

\* The moving images of size s fed to the forward pass.
MovingImages(s) == {Constant(s, Scale), Checker(s)}

\* The fixed images of size s fed to the forward pass.
FixedImages(s) == {Corner(s)}

\* The label volumes of size s.
Labels(s) == {Table([v \in Grid(s) |-> Scale - Checker(s)[v]])}

\* The backbones: each maps the 2-channel input to a 3-channel field.
Backbones == {"zero", "shift", "diff"}

\* backbone(inputs=inputs): the zero field, the field of half a voxel along
\* every axis, or the field of the difference of the two channels.
Backbone(backbone, inputs) ==
    Table([v \in DOMAIN inputs |->
        CASE backbone = "zero" -> <<0, 0, 0>>
          [] backbone = "shift" -> <<Scale \div 2, Scale \div 2, Scale \div 2>>
          [] OTHER -> LET d == inputs[v][1] - inputs[v][2] IN <<d, d, d>>])

\* ----------------------------------------------------------- ddf_dvf_forward

\* The moving image resized to the fixed size when the sizes differ.
AdjustMovingImage(moving_image, moving_image_size, fixed_image_size) ==
    IF moving_image_size /= fixed_image_size
    THEN Resize3d(fixed_image_size, moving_image)
    ELSE moving_image

\* BackboneInputs with the two images in the other order.
BackboneInputsSwapped(moving_image, fixed_image) == Concat(fixed_image, moving_image)

\* The input of the backbone: the moving image, then the fixed image.
BackboneInputs(moving_image, fixed_image) == Concat(moving_image, fixed_image)

\* DdfDvf without the integration of the dvf.
DdfDvfNotIntegrated(backbone_out, fixed_image_size, output_dvf) ==
    IF output_dvf
    THEN [dvf |-> Some(backbone_out), ddf |-> backbone_out]
    ELSE [dvf |-> None, ddf |-> backbone_out]

\* The velocity field (or None) and the displacement field of a backbone output.
DdfDvf(backbone_out, fixed_image_size, output_dvf) ==
    IF output_dvf
    THEN [dvf |-> Some(backbone_out), ddf |-> IntDVF(fixed_image_size, backbone_out)]
    ELSE [dvf |-> None, ddf |-> backbone_out]

\* The warped moving image.
PredFixedImage(grid_ref, ddf, moving_image) ==
    WarpVolume(grid_ref, ddf, Squeeze(moving_image))

\* PredFixedLabel of the moving label resized as the moving image is.
PredFixedLabelResized(grid_ref, ddf, moving_label) ==
    IF ~IsNone(moving_label)
    THEN Some(WarpVolume(grid_ref, ddf,
                         Squeeze(Resize3d(SizeOf(grid_ref),
                                          ExpandDims(Get(moving_label))))))
    ELSE None

\* PredFixedLabel that warps no label.
PredFixedLabelDropped(grid_ref, ddf, moving_label) == None

\* The warped moving label, None when no moving label is given.
PredFixedLabel(grid_ref, ddf, moving_label) ==
    IF ~IsNone(moving_label)
    THEN Some(WarpVolume(grid_ref, ddf, Get(moving_label)))
    ELSE None

\* ddf_dvf_forward: its locals and its return values.
DdfDvfForward(backbone, moving_image, fixed_image, moving_label, moving_image_size, fixed_image_size, output_dvf) ==
    LET moving5 == AdjustMovingImage(ExpandDims(moving_image),
                                     moving_image_size, fixed_image_size)
        fixed5 == ExpandDims(fixed_image)
        inputs == BackboneInputs(moving5, fixed5)
        backbone_out == Backbone(backbone, inputs)
        f == DdfDvf(backbone_out, fixed_image_size, output_dvf)
        grid_ref == ReferenceGrid(fixed_image_size)
    IN  [moving_image |-> moving5,
         inputs |-> inputs,
         backbone_out |-> backbone_out,
         dvf |-> f.dvf,
         ddf |-> f.ddf,
         pred_fixed_image |-> PredFixedImage(grid_ref, f.ddf, moving5),
         pred_fixed_label |-> PredFixedLabel(grid_ref, f.ddf, moving_label),
         grid_fixed |-> grid_ref]

\* ------------------------------------------------------- losses and metrics

\* deform_loss.local_displacement_energy, then tf.reduce_mean: the mean over
\* the voxels of the absolute differences of ddf between neighbouring voxels.
LocalDisplacementEnergy(ddf) ==
    LET G == DOMAIN ddf
        Step(v, a) == [v EXCEPT ![a] = v[a] + 1]
        At(v) ==
            SumOver([a \in 1..3 |->
                        IF Step(v, a) \in G
                        THEN SumOver([c \in 1..3 |->
                                         Abs(ddf[Step(v, a)][c] - ddf[v][c])], 1..3)
                        ELSE 0], 1..3)
    IN  SumOver([v \in G |-> At(v)], G) \div Cardinality(G)

\* The names image_loss.dissimilarity_fn recognises.
ImageMethods == {"ssd"}

\* image_loss.dissimilarity_fn, then tf.reduce_mean: the mean squared difference.
ImageDissimilarity(y_true, y_pred) ==
    LET G == DOMAIN y_true
    IN  SumOver([v \in G |-> Mul(y_true[v] - y_pred[v], y_true[v] - y_pred[v])], G)
            \div Cardinality(G)

\* A label volume thresholded at 0.5.
Binarize(y) == [v \in DOMAIN y |-> IF 2 * y[v] >= Scale THEN Scale ELSE 0]

\* label_loss.dice_score: 2 |A n B| / (|A| + |B|), 1.0 when both are empty.
DiceScore(y_true, y_pred, binary) ==
    LET G == DOMAIN y_true
        t == IF binary THEN Binarize(y_true) ELSE y_true
        p == IF binary THEN Binarize(y_pred) ELSE y_pred
        num == 2 * SumOver([v \in G |-> Mul(t[v], p[v])], G)
        den == SumOver(t, G) + SumOver(p, G)
    IN  IF den = 0 THEN Scale ELSE (num * Scale) \div den

\* The names label_loss.get_dissimilarity_fn recognises.
LabelMethods == {"dice"}

\* label_loss.get_dissimilarity_fn(config)(y_true, y_pred), then
\* tf.reduce_mean: the weight of the configuration is folded into the value.
LabelDissimilarity(config, y_true, y_pred) ==
    Mul(config.weight, Scale - DiceScore(y_true, y_pred, FALSE))

\* label_loss.foreground_proportion: the fraction of voxels of value >= 0.5.
ForegroundProportion(y) ==
    (Cardinality({v \in DOMAIN y : 2 * y[v] >= Scale}) * Scale)
        \div Cardinality(DOMAIN y)

\* The value standing for an undefined number (0 / 0).
NaN == 0 - 1

RECURSIVE Sqrt(_, _, _)
\* The square root of n, rounded down, between lo and hi.
Sqrt(n, lo, hi) ==
    IF lo >= hi THEN lo
    ELSE LET mid == (lo + hi + 1) \div 2
         IN  IF mid * mid <= n THEN Sqrt(n, mid, hi) ELSE Sqrt(n, lo, mid - 1)

\* label_loss.compute_centroid_distance: the distance between the centroids
\* (the grid coordinates averaged by label intensity) of y_true and y_pred.
ComputeCentroidDistance(y_true, y_pred, grid) ==
    LET G == DOMAIN grid
        Mass(y) == SumOver(y, G)
        Centroid(y, a) == SumOver([v \in G |-> grid[v][a] * y[v]], G) \div Mass(y)
        d(a) == Centroid(y_true, a) - Centroid(y_pred, a)
        sq == d(1) * d(1) + d(2) * d(2) + d(3) * d(3)
    IN  IF Mass(y_true) = 0 \/ Mass(y_pred) = 0 THEN NaN
        ELSE Sqrt(sq, 0, 3 * MaxDim * Scale)

\* ---------------------------------------------------- ddf_dvf_add_loss_metric

\* A model: its name, its input and output mappings, the losses and the
\* metrics added to it, and the error that ended the call ("" when none did).
NewModel(name, inputs, outputs) ==
    [name |-> name, inputs |-> inputs, outputs |-> outputs,
     losses |-> <<>>, metrics |-> <<>>, error |-> ""]

\* model.add_loss(value).
AddLoss(model, value) ==
    [model EXCEPT !.losses = Append(@, value)]

\* model.add_metric(value, name=name, aggregation="mean").
AddMetric(model, value, name) ==
    [model EXCEPT !.metrics = Append(@, [name |-> name, value |-> value])]

\* The call ended by an exception.
Raise(model, error) == [model EXCEPT !.error = error]

\* AddRegularization behind the guard of the image loss: only with a weight > 0.
AddRegularizationGated(model, ddf, loss_config) ==
    IF "regularization" \notin DOMAIN loss_config
        THEN Raise(model, "KeyError")
    ELSE IF "weight" \notin DOMAIN loss_config.regularization
        THEN Raise(model, "KeyError")
    ELSE IF ~(loss_config.regularization.weight > 0) THEN model
    ELSE
        LET loss_reg == LocalDisplacementEnergy(ddf)
            weighted_loss_reg == Mul(loss_reg, loss_config.regularization.weight)
        IN  AddMetric(
                AddMetric(AddLoss(model, weighted_loss_reg),
                          loss_reg, "loss/regularization"),
                weighted_loss_reg, "loss/weighted_regularization")

\* AddRegularization with the weight added to the energy, not multiplied.
AddRegularizationSum(model, ddf, loss_config) ==
    IF "regularization" \notin DOMAIN loss_config
        THEN Raise(model, "KeyError")
    ELSE IF "weight" \notin DOMAIN loss_config.regularization
        THEN Raise(model, "KeyError")
    ELSE
        LET loss_reg == LocalDisplacementEnergy(ddf)
            weighted_loss_reg == loss_reg + loss_config.regularization.weight
        IN  AddMetric(
                AddMetric(AddLoss(model, weighted_loss_reg),
                          loss_reg, "loss/regularization"),
                weighted_loss_reg, "loss/weighted_regularization")

\* The regularization loss on ddf.
AddRegularization(model, ddf, loss_config) ==
    IF "regularization" \notin DOMAIN loss_config
        THEN Raise(model, "KeyError")
    ELSE IF "weight" \notin DOMAIN loss_config.regularization
        THEN Raise(model, "KeyError")
    ELSE
        LET loss_reg == LocalDisplacementEnergy(ddf)
            weighted_loss_reg == Mul(loss_reg, loss_config.regularization.weight)
        IN  AddMetric(
                AddMetric(AddLoss(model, weighted_loss_reg),
                          loss_reg, "loss/regularization"),
                weighted_loss_reg, "loss/weighted_regularization")

\* ImageLossEnabled with a weight of 0 enabling the loss.
ImageLossEnabledAtZero(image_config) == image_config.weight >= 0

\* Whether the image loss is computed.
ImageLossEnabled(image_config) == image_config.weight > 0

\* The image loss.
AddImageDissimilarity(model, fixed_image, pred_fixed_image, loss_config) ==
    IF model.error /= "" THEN model
    ELSE IF \/ "dissimilarity" \notin DOMAIN loss_config
            \/ "image" \notin DOMAIN loss_config.dissimilarity
            \/ "weight" \notin DOMAIN loss_config.dissimilarity.image
        THEN Raise(model, "KeyError")
    ELSE IF ~ImageLossEnabled(loss_config.dissimilarity.image) THEN model
    ELSE IF loss_config.dissimilarity.image.name \notin ImageMethods
        THEN Raise(model, "ValueError")
    ELSE
        LET loss_image == ImageDissimilarity(fixed_image, pred_fixed_image)
            weighted_loss_image ==
                Mul(loss_image, loss_config.dissimilarity.image.weight)
        IN  AddMetric(
                AddMetric(AddLoss(model, weighted_loss_image),
                          loss_image, "loss/image_dissimilarity"),
                weighted_loss_image, "loss/weighted_image_dissimilarity")

\* The weighted label loss of the label loss.
WeightedLossLabel(loss_label, label_config) == loss_label

\* AddLabelMetrics with the centroid distance added as a loss too.
AddLabelMetricsAsLoss(model, grid_fixed, fixed_label, pred_fixed_label) ==
    LET dice_binary == DiceScore(fixed_label, pred_fixed_label, TRUE)
        dice_float == DiceScore(fixed_label, pred_fixed_label, FALSE)
        tre == ComputeCentroidDistance(fixed_label, pred_fixed_label, grid_fixed)
        foreground_label == ForegroundProportion(fixed_label)
        foreground_pred == ForegroundProportion(pred_fixed_label)
    IN  AddMetric(
         AddMetric(
          AddMetric(
           AddMetric(
            AddMetric(AddLoss(model, tre), dice_binary, "metric/dice_binary"),
            dice_float, "metric/dice_float"),
           tre, "metric/tre"),
          foreground_label, "metric/foreground_label"),
         foreground_pred, "metric/foreground_pred")

\* The label metrics, which are no losses.
AddLabelMetrics(model, grid_fixed, fixed_label, pred_fixed_label) ==
    LET dice_binary == DiceScore(fixed_label, pred_fixed_label, TRUE)
        dice_float == DiceScore(fixed_label, pred_fixed_label, FALSE)
        tre == ComputeCentroidDistance(fixed_label, pred_fixed_label, grid_fixed)
        foreground_label == ForegroundProportion(fixed_label)
        foreground_pred == ForegroundProportion(pred_fixed_label)
    IN  AddMetric(
         AddMetric(
          AddMetric(
           AddMetric(
            AddMetric(model, dice_binary, "metric/dice_binary"),
            dice_float, "metric/dice_float"),
           tre, "metric/tre"),
          foreground_label, "metric/foreground_label"),
         foreground_pred, "metric/foreground_pred")

\* The label loss and the label metrics.
AddLabelDissimilarity(model, grid_fixed, fixed_label, pred_fixed_label, loss_config) ==
    IF model.error /= "" THEN model
    ELSE IF IsNone(fixed_label) THEN model
    ELSE IF \/ "dissimilarity" \notin DOMAIN loss_config
            \/ "label" \notin DOMAIN loss_config.dissimilarity
        THEN Raise(model, "KeyError")
    ELSE IF loss_config.dissimilarity.label.name \notin LabelMethods
        THEN Raise(model, "ValueError")
    ELSE IF IsNone(pred_fixed_label)
        THEN Raise(model, "TypeError")
    ELSE
        LET loss_label == LabelDissimilarity(loss_config.dissimilarity.label,
                                             Get(fixed_label), Get(pred_fixed_label))
            weighted_loss_label ==
                WeightedLossLabel(loss_label, loss_config.dissimilarity.label)
        IN  AddLabelMetrics(
                AddMetric(
                    AddMetric(AddLoss(model, weighted_loss_label),
                              loss_label, "loss/label_dissimilarity"),
                    weighted_loss_label, "loss/weighted_label_dissimilarity"),
                grid_fixed, Get(fixed_label), Get(pred_fixed_label))

\* ddf_dvf_add_loss_metric: the model after the call.
DdfDvfAddLossMetric(model, ddf, grid_fixed, fixed_image, fixed_label, pred_fixed_image, pred_fixed_label, loss_config) ==
    AddLabelDissimilarity(
        AddImageDissimilarity(
            AddRegularization(model, ddf, loss_config),
            fixed_image, pred_fixed_image, loss_config),
        grid_fixed, fixed_label, pred_fixed_label, loss_config)

\* ------------------------------------------------------- loss configurations

\* The weights of the loss terms: -1.0, 0.0 and 0.5.
Weights == {0 - Scale, 0, Scale \div 2}

\* loss_config["regularization"], with and without its "weight".
RegularizationConfigs ==
    {[energy_type |-> "gradient-l1", weight |-> w] : w \in Weights}
        \cup {[energy_type |-> "gradient-l1"]}

\* loss_config["dissimilarity"]["image"], with and without its "weight", of a
\* known and of an unknown method.
ImageConfigs ==
    {[name |-> "ssd", weight |-> w] : w \in Weights}
        \cup {[name |-> "bogus", weight |-> Scale \div 2], [name |-> "ssd"]}

\* loss_config["dissimilarity"]["label"], of a known and of an unknown method.
LabelConfigs == {[name |-> n, weight |-> 2 * Scale] : n \in {"dice", "bogus"}}

\* loss_config["dissimilarity"], with and without its "label".
DissimilarityConfigs ==
    {[image |-> i, label |-> l] : i \in ImageConfigs, l \in LabelConfigs}
        \cup {[image |-> i] : i \in ImageConfigs}

\* What is malformed in a loss configuration.
Defects(loss_config) ==
    LET d == loss_config.dissimilarity
    IN  (IF "weight" \in DOMAIN loss_config.regularization
         THEN {} ELSE {"regularization weight"})
        \cup (IF "weight" \in DOMAIN d.image THEN {} ELSE {"image weight"})
        \cup (IF d.image.name \in ImageMethods THEN {} ELSE {"image method"})
        \cup (IF "label" \in DOMAIN d THEN {} ELSE {"label"})
        \cup (IF "label" \in DOMAIN d /\ d.label.name \notin LabelMethods
              THEN {"label method"} ELSE {})

\* The loss configurations: the well-formed ones, and those malformed in one
\* place.
LossConfigs ==
    {c \in {[regularization |-> r, dissimilarity |-> d] :
               r \in RegularizationConfigs, d \in DissimilarityConfigs} :
        Cardinality(Defects(c)) <= 1}

\* ------------------------------------------------------ build_ddf_dvf_model

\* The values of model_config["method"].
Methods == {"ddf", "dvf", "conditional"}

\* str.upper on a method name.
Upper(method) ==
    CASE method = "ddf" -> "DDF"
      [] method = "dvf" -> "DVF"
      [] method = "conditional" -> "CONDITIONAL"

\* build_inputs: the input tensors; the labels only when the data is labeled.
BuildInputs(sample, index_size, labeled) ==
    [moving_image |-> sample.moving_image,
     fixed_image |-> sample.fixed_image,
     moving_label |-> IF labeled THEN Some(sample.moving_label) ELSE None,
     fixed_label |-> IF labeled THEN Some(sample.fixed_label) ELSE None,
     indices |-> [i \in 1..index_size |-> 0]]

\* add_ddf_loss: the regularization loss on ddf.
AddDdfLoss(model, ddf, loss_config) == AddRegularization(model, ddf, loss_config)

\* add_image_loss: the image loss.
AddImageLoss(model, fixed_image, pred_fixed_image, loss_config) ==
    AddImageDissimilarity(model, fixed_image, pred_fixed_image, loss_config)

\* add_label_loss: the label loss and the label metrics.
AddLabelLoss(model, grid_fixed, fixed_label, pred_fixed_label, loss_config) ==
    AddLabelDissimilarity(model, grid_fixed, fixed_label, pred_fixed_label,
                          loss_config)

\* OutputDvf true of every method but "ddf".
OutputDvfNotDdf(method) == method /= "ddf"

\* Whether the forward pass of a model of this method outputs the dvf.
OutputDvf(method) == method = "dvf"

\* The input mapping of the model.
ModelInputs(in) ==
    LET inputs == [moving_image |-> in.moving_image,
                   fixed_image |-> in.fixed_image,
                   indices |-> in.indices]
    IN  IF IsNone(in.moving_label) THEN inputs
        ELSE [moving_image |-> in.moving_image,
              fixed_image |-> in.fixed_image,
              indices |-> in.indices,
              moving_label |-> Get(in.moving_label),
              fixed_label |-> Get(in.fixed_label)]

\* The output mapping of the model.
ModelOutputs(in, f) ==
    LET outputs == IF ~IsNone(f.dvf)
                   THEN [ddf |-> f.ddf, dvf |-> Get(f.dvf)]
                   ELSE [ddf |-> f.ddf]
    IN  IF IsNone(in.moving_label) THEN outputs
        ELSE [k \in DOMAIN outputs \cup {"pred_fixed_label"} |->
                 IF k = "pred_fixed_label"
                 THEN (IF IsNone(f.pred_fixed_label) THEN None
                       ELSE Get(f.pred_fixed_label))
                 ELSE outputs[k]]

\* The name of the model.
ModelName(method, in) ==
    Upper(method) \o "RegistrationModel"
        \o (IF IsNone(in.moving_label) THEN "WithoutLabel" ELSE "WithLabel")

\* The forward pass of build_ddf_dvf_model.
BuildForward(in, backbone, moving_image_size, fixed_image_size, method) ==
    DdfDvfForward(backbone, in.moving_image, in.fixed_image, in.moving_label,
                  moving_image_size, fixed_image_size, OutputDvf(method))

\* build_ddf_dvf_model, given its inputs and its forward pass: the model.
BuildDdfDvfModel(in, f, method, loss_config) ==
    AddLabelLoss(
        AddImageLoss(
            AddDdfLoss(NewModel(ModelName(method, in), ModelInputs(in),
                                ModelOutputs(in, f)),
                       f.ddf, loss_config),
            in.fixed_image, f.pred_fixed_image, loss_config),
        f.grid_fixed, in.fixed_label, f.pred_fixed_label, loss_config)

\* -------------------------------------------------------------- the program

VARIABLES
    pc,         \* "start", "forward", "loss" or "built": the calls made so far
    args,       \* the arguments of ddf_dvf_forward
    fwd,        \* the locals and return values of ddf_dvf_forward
    loss_args,  \* fixed_label and loss_config of the loss assembly
    model       \* the model the losses and the metrics are added to

vars == <<pc, args, fwd, loss_args, model>>

\* The number of indices identifying a sample.
IndexSize == 2

Init ==
    /\ pc = "start"
    /\ args = <<>>
    /\ fwd = <<>>
    /\ loss_args = <<>>
    /\ model = NewModel("Model", <<>>, <<>>)

\* A call of ddf_dvf_forward.
Forward ==
    /\ pc = "start"
    /\ \E ms \in Sizes, fs \in Sizes, b \in Backbones, output_dvf \in BOOLEAN :
       \E mi \in MovingImages(ms), fi \in FixedImages(fs),
          ml \in {None} \cup {Some(l) : l \in Labels(ms)} :
          /\ args' = [backbone |-> b, moving_image |-> mi, fixed_image |-> fi,
                      moving_label |-> ml, moving_image_size |-> ms,
                      fixed_image_size |-> fs, output_dvf |-> output_dvf]
          /\ fwd' = DdfDvfForward(b, mi, fi, ml, ms, fs, output_dvf)
    /\ pc' = "forward"
    /\ UNCHANGED <<loss_args, model>>

\* A call of ddf_dvf_add_loss_metric on the results of the forward pass.
AddLossMetric ==
    /\ pc = "forward"
    /\ \E fl \in {None} \cup {Some(l) : l \in Labels(args.fixed_image_size)},
          loss_config \in LossConfigs :
          /\ loss_args' = [fixed_label |-> fl, loss_config |-> loss_config]
          /\ model' = DdfDvfAddLossMetric(model, fwd.ddf, fwd.grid_fixed,
                                          args.fixed_image, fl,
                                          fwd.pred_fixed_image,
                                          fwd.pred_fixed_label, loss_config)
    /\ pc' = "loss"
    /\ UNCHANGED <<args, fwd>>

\* A call of build_ddf_dvf_model.
Build ==
    /\ pc = "start"
    /\ \E ms \in Sizes, fs \in Sizes, b \in Backbones, method \in Methods,
          labeled \in BOOLEAN :
       \E mi \in {Checker(ms)}, fi \in FixedImages(fs),
          ml \in Labels(ms), fl \in Labels(fs) :
       \E in \in {BuildInputs([moving_image |-> mi, fixed_image |-> fi,
                               moving_label |-> ml, fixed_label |-> fl],
                              IndexSize, labeled)} :
       \E f \in {BuildForward(in, b, ms, fs, method)} :
       \E loss_config \in LossConfigs :
          /\ args' = [backbone |-> b, moving_image |-> in.moving_image,
                      fixed_image |-> in.fixed_image,
                      moving_label |-> in.moving_label,
                      moving_image_size |-> ms, fixed_image_size |-> fs,
                      output_dvf |-> OutputDvf(method),
                      method |-> method, labeled |-> labeled]
          /\ fwd' = f
          /\ loss_args' = [fixed_label |-> in.fixed_label,
                           loss_config |-> loss_config]
          /\ model' = BuildDdfDvfModel(in, f, method, loss_config)
    /\ pc' = "built"

Next == Forward \/ AddLossMetric \/ Build

Spec == Init /\ [][Next]_vars
\* ------------------------------------------------------------- the claims

\* ddf_dvf_forward has just returned, called by itself or by
\* build_ddf_dvf_model; later calls leave its arguments and results as they are.
Forwarded == pc \in {"forward", "built"}

\* The names of the metrics added to the model.
MetricNames == {model.metrics[i].name : i \in DOMAIN model.metrics}

\* The values reported under a name.
MetricValues(name) ==
    {model.metrics[i].value : i \in {j \in DOMAIN model.metrics :
                                        model.metrics[j].name = name}}

\* How many metrics were added under a name.
MetricCount(name) ==
    Cardinality({i \in DOMAIN model.metrics : model.metrics[i].name = name})

ImageMetricNames == {"loss/image_dissimilarity", "loss/weighted_image_dissimilarity"}

LabelLossNames == {"loss/label_dissimilarity", "loss/weighted_label_dissimilarity"}

DiagnosticNames ==
    {"metric/dice_binary", "metric/dice_float", "metric/tre",
     "metric/foreground_label", "metric/foreground_pred"}

\* The field that is 0 at every voxel of size s.
ZeroField(s) == [v \in Grid(s) |-> <<0, 0, 0>>]

HasRegWeight ==
    /\ "regularization" \in DOMAIN loss_args.loss_config
    /\ "weight" \in DOMAIN loss_args.loss_config.regularization

RegWeight == loss_args.loss_config.regularization.weight

HasImageWeight == "weight" \in DOMAIN loss_args.loss_config.dissimilarity.image

ImageWeight == loss_args.loss_config.dissimilarity.image.weight

\* The losses a call that ends without an error adds, in the order it adds them.
ExpectedLosses ==
    <<Mul(LocalDisplacementEnergy(fwd.ddf), RegWeight)>>
    \o (IF ImageWeight > 0
        THEN <<Mul(ImageDissimilarity(args.fixed_image, fwd.pred_fixed_image),
                   ImageWeight)>>
        ELSE <<>>)
    \o (IF ~IsNone(loss_args.fixed_label)
        THEN <<LabelDissimilarity(loss_args.loss_config.dissimilarity.label,
                                  Get(loss_args.fixed_label),
                                  Get(fwd.pred_fixed_label))>>
        ELSE <<>>)

\* C1: in ddf_dvf_forward the backbone output is the dvf, and its integral the
\* ddf, when output_dvf is true; it is the ddf, and the dvf is None, when
\* output_dvf is false; the image and the label are warped by the returned ddf.
C1_DdfDvfSelection ==
    Forwarded =>
        /\ fwd.backbone_out = Backbone(args.backbone, fwd.inputs)
        /\ args.output_dvf =>
              /\ fwd.dvf = Some(fwd.backbone_out)
              /\ fwd.ddf = IntDVF(args.fixed_image_size, fwd.backbone_out)
        /\ ~args.output_dvf =>
              /\ fwd.ddf = fwd.backbone_out
              /\ fwd.dvf = None
        /\ fwd.pred_fixed_image =
              WarpVolume(fwd.grid_fixed, fwd.ddf, Squeeze(fwd.moving_image))
        /\ ~IsNone(args.moving_label) =>
              fwd.pred_fixed_label =
                  Some(WarpVolume(fwd.grid_fixed, fwd.ddf, Get(args.moving_label)))

\* A dvf whose integral differs from it, and whose warp of the image and of the
\* label differs from the warp by the ddf.
C1_Witness ==
    /\ pc = "forward"
    /\ args.output_dvf
    /\ ~IsNone(args.moving_label)
    /\ fwd.ddf /= Get(fwd.dvf)
    /\ fwd.pred_fixed_image /=
          WarpVolume(fwd.grid_fixed, Get(fwd.dvf), Squeeze(fwd.moving_image))
    /\ fwd.pred_fixed_label /=
          Some(WarpVolume(fwd.grid_fixed, Get(fwd.dvf), Get(args.moving_label)))

\* C2: the output mapping of the built model holds ddf, dvf exactly when the
\* method is "dvf" and pred_fixed_label exactly when the model is labeled; the
\* input mapping holds moving_image, fixed_image, indices, and moving_label
\* and fixed_label exactly when the model is labeled.
C2_ModelKeys ==
    pc = "built" =>
        /\ DOMAIN model.outputs =
              {"ddf"}
              \cup (IF args.method = "dvf" THEN {"dvf"} ELSE {})
              \cup (IF args.labeled THEN {"pred_fixed_label"} ELSE {})
        /\ DOMAIN model.inputs =
              {"moving_image", "fixed_image", "indices"}
              \cup (IF args.labeled THEN {"moving_label", "fixed_label"} ELSE {})

\* A labeled dvf model, built without an error.
C2_Witness ==
    /\ pc = "built"
    /\ model.error = ""
    /\ args.method = "dvf"
    /\ args.labeled
    /\ DOMAIN model.outputs = {"ddf", "dvf", "pred_fixed_label"}

\* C3: ddf_dvf_add_loss_metric adds the image loss, loss_image * weight, and
\* reports the two image metrics exactly when the image weight is > 0; with a
\* weight <= 0 it adds no image loss and reports neither image metric.
C3_ImageLossGate ==
    pc = "loss" =>
        /\ model.error = "" =>
              /\ (ImageMetricNames \subseteq MetricNames) <=> (ImageWeight > 0)
              /\ Len(model.losses) =
                    1 + (IF ImageWeight > 0 THEN 1 ELSE 0)
                      + (IF IsNone(loss_args.fixed_label) THEN 0 ELSE 1)
        /\ (ImageMetricNames \cap MetricNames /= {}) =>
              /\ HasImageWeight /\ ImageWeight > 0
              /\ ImageMetricNames \subseteq MetricNames
              /\ Len(model.losses) >= 2
              /\ LET loss_image ==
                         ImageDissimilarity(args.fixed_image, fwd.pred_fixed_image)
                 IN  /\ model.losses[2] = Mul(loss_image, ImageWeight)
                     /\ MetricValues("loss/image_dissimilarity") = {loss_image}
                     /\ MetricValues("loss/weighted_image_dissimilarity") =
                           {Mul(loss_image, ImageWeight)}
        /\ (HasRegWeight /\ HasImageWeight /\ ImageWeight <= 0) =>
              /\ ImageMetricNames \cap MetricNames = {}
              /\ Len(model.losses) =
                    1 + (IF "loss/label_dissimilarity" \in MetricNames
                         THEN 1 ELSE 0)

\* The image loss added with a weight > 0 and a loss that is not 0.
C3_Witness ==
    /\ pc = "loss"
    /\ model.error = ""
    /\ ImageWeight > 0
    /\ ImageMetricNames \subseteq MetricNames
    /\ model.losses[2] /= 0

C6_NoPartialFailure ==
    (pc = "loss" /\ model.error \in {"KeyError", "ValueError"}) =>
        /\ model.losses = <<>>
        /\ model.metrics = <<>>

\* C7: the moving image is resized to the fixed size exactly when the sizes
\* differ, before the backbone is called; the backbone gets the (resized)
\* moving image as channel 0 and the fixed image as channel 1, over the fixed
\* grid; the warped image is sampled from the same (resized) moving image and
\* has the fixed size.
C7_SizeAdapter ==
    Forwarded =>
        LET fs == args.fixed_image_size
            moving5 == ExpandDims(args.moving_image)
        IN  /\ args.moving_image_size /= fs =>
                  fwd.moving_image = Resize3d(fs, moving5)
            /\ args.moving_image_size = fs => fwd.moving_image = moving5
            /\ DOMAIN fwd.moving_image = Grid(fs)
            /\ DOMAIN fwd.inputs = Grid(fs)
            /\ \A v \in Grid(fs) :
                  fwd.inputs[v] = <<fwd.moving_image[v][1], args.fixed_image[v]>>
            /\ fwd.backbone_out = Backbone(args.backbone, fwd.inputs)
            /\ fwd.pred_fixed_image =
                  WarpVolume(ReferenceGrid(fs), fwd.ddf, Squeeze(fwd.moving_image))
            /\ DOMAIN fwd.pred_fixed_image = Grid(fs)

\* A moving image of another size than the fixed image, resized, whose two
\* channels of the backbone input differ.
C7_Witness ==
    /\ pc = "forward"
    /\ args.moving_image_size /= args.fixed_image_size
    /\ DOMAIN args.moving_image /= DOMAIN fwd.moving_image
    /\ \E v \in DOMAIN fwd.inputs : fwd.inputs[v][1] /= fwd.inputs[v][2]

\* C8: with equal sizes and a backbone output that is 0 everywhere, in both
\* modes, the ddf is 0 everywhere, the warped image is the moving image and
\* the regularization energy, raw and weighted, is 0.
C8_ZeroField ==
    (/\ pc /= "start"
     /\ args.moving_image_size = args.fixed_image_size
     /\ fwd.backbone_out = ZeroField(args.fixed_image_size)) =>
        /\ fwd.ddf = ZeroField(args.fixed_image_size)
        /\ fwd.pred_fixed_image = args.moving_image
        /\ (pc \in {"loss", "built"} /\ HasRegWeight) =>
              /\ MetricValues("loss/regularization") = {0}
              /\ MetricValues("loss/weighted_regularization") = {0}
              /\ model.losses[1] = 0

\* A zero field integrated from a zero dvf, warping an image that is not
\* constant, with a regularization weight that is not 0.
C8_Witness ==
    /\ pc = "loss"
    /\ args.moving_image_size = args.fixed_image_size
    /\ args.output_dvf
    /\ fwd.backbone_out = ZeroField(args.fixed_image_size)
    /\ \E u, v \in DOMAIN args.moving_image :
          args.moving_image[u] /= args.moving_image[v]
    /\ HasRegWeight
    /\ RegWeight /= 0
    /\ MetricValues("loss/weighted_regularization") = {0}

\* The moving label resized as the moving image is, then warped.
ResizedLabelWarp ==
    Some(WarpVolume(fwd.grid_fixed, fwd.ddf,
                    Squeeze(Resize3d(args.fixed_image_size,
                                     ExpandDims(Get(args.moving_label))))))

\* C9: the warped label is None exactly when moving_label is None; otherwise
\* it is the warp of the moving label as given, not resized, by the ddf and
\* over the reference grid that warp the image, the grid that is returned.
C9_LabelWarp ==
    Forwarded =>
        /\ IsNone(fwd.pred_fixed_label) <=> IsNone(args.moving_label)
        /\ fwd.grid_fixed = ReferenceGrid(args.fixed_image_size)
        /\ ~IsNone(args.moving_label) =>
              /\ fwd.pred_fixed_label =
                    Some(WarpVolume(fwd.grid_fixed, fwd.ddf, Get(args.moving_label)))
              /\ DOMAIN Get(fwd.pred_fixed_label) = Grid(args.fixed_image_size)
        /\ fwd.pred_fixed_image =
              WarpVolume(fwd.grid_fixed, fwd.ddf, Squeeze(fwd.moving_image))

\* A label warped while the moving image was resized, where the warp of the
\* resized label would differ.
C9_Witness ==
    /\ pc = "forward"
    /\ ~IsNone(args.moving_label)
    /\ args.moving_image_size /= args.fixed_image_size
    /\ fwd.pred_fixed_label /= ResizedLabelWarp

\* C10 as stated: whenever ddf_dvf_add_loss_metric enters its label branch on
\* the results of ddf_dvf_forward, pred_fixed_label is present.
C10_LabelBranchNeverOnNone ==
    (pc = "loss" /\ ~IsNone(loss_args.fixed_label)) =>
        ~IsNone(fwd.pred_fixed_label)

\* C10 as amended: when moving_label and fixed_label are both present or both
\* absent, as build_ddf_dvf_model gives them, the label branch is entered with
\* pred_fixed_label present, and no label function is called on None.
C10_LabelBranchCoupled ==
    (/\ pc \in {"loss", "built"}
     /\ IsNone(args.moving_label) <=> IsNone(loss_args.fixed_label)) =>
        /\ ~IsNone(loss_args.fixed_label) => ~IsNone(fwd.pred_fixed_label)
        /\ model.error /= "TypeError"

\* The label branch entered with both labels present, and the label metrics
\* computed.
C10_Witness ==
    /\ pc = "loss"
    /\ ~IsNone(args.moving_label)
    /\ ~IsNone(loss_args.fixed_label)
    /\ ~IsNone(fwd.pred_fixed_label)
    /\ model.error = ""
    /\ DiagnosticNames \subseteq MetricNames
====
